---- MODULE Spec2Model ----
(***************************************************************************)
(* Model of the ESS sample size calculator (src/calculator_core.py) and of *)
(* the way src/app.py drives it: the engine is constructed once (loading   *)
(* the survey profiles), the caller builds a SurveyParameters value and    *)
(* passes it to calculate_sample, or asks for get_survey_types.            *)
(*                                                                         *)
(* Numbers.  The program computes with Python floats.  The model computes  *)
(* with exact rationals over arbitrary-precision naturals (TLC's integers  *)
(* are 32 bits wide, the intermediate products are not).  The inputs the   *)
(* model draws are short decimals whose results stay away from the places  *)
(* where a float and the exact value round differently (a ceiling at an    *)
(* exact integer, a round(x, 3) at an exact half).                         *)
(***************************************************************************)
EXTENDS Integers, Sequences, FiniteSets, TLC

(***************************************************************************)
(* Arbitrary-precision naturals: little-endian sequences of limbs in base  *)
(* BigBase, without leading zero limbs (zero is the empty sequence).       *)
(***************************************************************************)
BigBase == 10000

RECURSIVE BigOfNat(_)
BigOfNat(n) == IF n = 0 THEN <<>> ELSE <<n % BigBase>> \o BigOfNat(n \div BigBase)

RECURSIVE BigToNat(_)
BigToNat(a) == IF a = <<>> THEN 0 ELSE Head(a) + BigBase * BigToNat(Tail(a))

RECURSIVE BigStrip(_)
BigStrip(a) ==
    IF a = <<>> THEN <<>>
    ELSE IF a[Len(a)] = 0 THEN BigStrip(SubSeq(a, 1, Len(a) - 1))
    ELSE a

RECURSIVE BigAddC(_, _, _)
BigAddC(a, b, c) ==
    IF a = <<>> /\ b = <<>> THEN (IF c = 0 THEN <<>> ELSE <<c>>)
    ELSE LET x == IF a = <<>> THEN 0 ELSE Head(a)
             y == IF b = <<>> THEN 0 ELSE Head(b)
             s == x + y + c
         IN  <<s % BigBase>> \o BigAddC(IF a = <<>> THEN a ELSE Tail(a),
                                        IF b = <<>> THEN b ELSE Tail(b),
                                        s \div BigBase)

BigAdd(a, b) == BigAddC(a, b, 0)

\* a - b for a >= b
RECURSIVE BigSubB(_, _, _)
BigSubB(a, b, c) ==
    IF a = <<>> THEN <<>>
    ELSE LET y == IF b = <<>> THEN 0 ELSE Head(b)
             s == Head(a) - y - c
         IN  <<IF s < 0 THEN s + BigBase ELSE s>>
             \o BigSubB(Tail(a), IF b = <<>> THEN b ELSE Tail(b), IF s < 0 THEN 1 ELSE 0)

BigSub(a, b) == BigStrip(BigSubB(a, b, 0))

\* a * m + c for a limb m
RECURSIVE BigMulSmall(_, _, _)
BigMulSmall(a, m, c) ==
    IF a = <<>> THEN (IF c = 0 THEN <<>> ELSE <<c>>)
    ELSE LET s == Head(a) * m + c
         IN  <<s % BigBase>> \o BigMulSmall(Tail(a), m, s \div BigBase)

RECURSIVE BigMulR(_, _)
BigMulR(a, b) ==
    IF b = <<>> THEN <<>>
    ELSE BigAdd(BigMulSmall(a, Head(b), 0), <<0>> \o BigMulR(a, Tail(b)))

BigMul(a, b) == BigStrip(BigMulR(a, b))

\* -1, 0, 1 as a < b, a = b, a > b
RECURSIVE BigCmpAt(_, _, _)
BigCmpAt(a, b, i) ==
    IF i = 0 THEN 0
    ELSE IF a[i] < b[i] THEN -1
    ELSE IF a[i] > b[i] THEN 1
    ELSE BigCmpAt(a, b, i - 1)

BigCmp(a, b) ==
    IF Len(a) < Len(b) THEN -1
    ELSE IF Len(a) > Len(b) THEN 1
    ELSE BigCmpAt(a, b, Len(a))

\* the largest q in lo..hi with q * d <= r (lo satisfies it)
RECURSIVE BigQuotDigit(_, _, _, _)
BigQuotDigit(r, d, lo, hi) ==
    IF lo = hi THEN lo
    ELSE LET mid == (lo + hi + 1) \div 2
         IN  IF BigCmp(BigStrip(BigMulSmall(d, mid, 0)), r) <= 0
             THEN BigQuotDigit(r, d, mid, hi)
             ELSE BigQuotDigit(r, d, lo, mid - 1)

\* <<quotient, remainder>> of the limbs a[1..i] by d (d # 0), long division
RECURSIVE BigDivModAt(_, _, _)
BigDivModAt(a, d, i) ==
    IF i > Len(a) THEN << <<>>, <<>> >>
    ELSE LET up == BigDivModAt(a, d, i + 1)
             r  == BigStrip(<<a[i]>> \o up[2])
             q  == IF BigCmp(r, d) < 0 THEN 0 ELSE BigQuotDigit(r, d, 1, BigBase - 1)
         IN  << <<q>> \o up[1], BigSub(r, BigStrip(BigMulSmall(d, q, 0))) >>

BigDivMod(a, d) ==
    LET qr == BigDivModAt(a, d, 1) IN << BigStrip(qr[1]), qr[2] >>

(***************************************************************************)
(* Exact rationals [neg, n, d]: sign, numerator and denominator (d # 0),   *)
(* not reduced.  Zero has neg = FALSE.  They stand for the program's       *)
(* floats.  A short fraction <<num, den>> of small integers (den > 0) is   *)
(* how the model writes a decimal input: <<1, 20>> is 0.05.                *)
(***************************************************************************)
Abs(i) == IF i < 0 THEN -i ELSE i

RatOfQ(q) == [neg |-> q[1] < 0, n |-> BigOfNat(Abs(q[1])), d |-> BigOfNat(q[2])]

RatOfInt(i) == RatOfQ(<<i, 1>>)

RIsZero(x) == x.n = <<>>

RNeg(x) == [x EXCEPT !.neg = (~x.neg) /\ x.n # <<>>]

RMul(x, y) ==
    LET n == BigMul(x.n, y.n)
    IN  [neg |-> (x.neg # y.neg) /\ n # <<>>, n |-> n, d |-> BigMul(x.d, y.d)]

\* x / y for y # 0
RDiv(x, y) ==
    LET n == BigMul(x.n, y.d)
    IN  [neg |-> (x.neg # y.neg) /\ n # <<>>, n |-> n, d |-> BigMul(x.d, y.n)]

RAdd(x, y) ==
    LET a == BigMul(x.n, y.d)
        b == BigMul(y.n, x.d)
        d == BigMul(x.d, y.d)
    IN  IF x.neg = y.neg THEN [neg |-> x.neg, n |-> BigAdd(a, b), d |-> d]
        ELSE IF BigCmp(a, b) >= 0
             THEN LET n == BigSub(a, b) IN [neg |-> x.neg /\ n # <<>>, n |-> n, d |-> d]
             ELSE [neg |-> y.neg, n |-> BigSub(b, a), d |-> d]

RSub(x, y) == RAdd(x, RNeg(y))

\* -1, 0, 1 as x < y, x = y, x > y
RCmp(x, y) ==
    LET z == RSub(x, y) IN IF z.n = <<>> THEN 0 ELSE IF z.neg THEN -1 ELSE 1

RLe(x, y) == RCmp(x, y) <= 0

REq(x, y) == RCmp(x, y) = 0

\* math.ceil(x), an integer
Ceil(x) ==
    LET qr == BigDivMod(x.n, x.d)
        q  == BigToNat(qr[1])
    IN  IF x.neg THEN -q
        ELSE IF qr[2] = <<>> THEN q ELSE q + 1

\* round(x, 3) in thousandths: the nearest multiple of 0.001, an exact half
\* going to the even one
Round3(x) ==
    LET qr   == BigDivMod(BigMulSmall(x.n, 1000, 0), x.d)
        q    == BigToNat(qr[1])
        half == BigCmp(BigMulSmall(qr[2], 2, 0), x.d)
        m    == IF half > 0 \/ (half = 0 /\ q % 2 = 1) THEN q + 1 ELSE q
    IN  IF x.neg THEN -m ELSE m

(***************************************************************************)
(* Optional values: None is the empty sequence, a present value v is <<v>>.*)
(***************************************************************************)
None == <<>>

Some(v) == <<v>>

(***************************************************************************)
(* Data.  A profile is a JSON object; a key it lacks is None.  The         *)
(* registry self.survey_profiles is whatever json.load returned: a list of *)
(* entries, or a value that is not a list (a non-empty object, a number).  *)
(***************************************************************************)
JsonList(items) == [kind |-> "list", items |-> items]

JsonObject == [kind |-> "object", items |-> <<>>]

JsonNumber == [kind |-> "number", items |-> <<>>]

\* self.survey_profiles before __init__ has run
Unset == [kind |-> "unset", items |-> <<>>]

\* the built-in default set of load_survey_profiles
DefaultProfiles ==
    JsonList(<< [id |-> Some("annual_agri"),
                 name |-> Some("Annual Agriculture Survey"),
                 default_icc |-> Some(<<3, 20>>),
                 default_cluster_size |-> Some(25),
                 description |-> Some("Crop area and production estimates")] >>)

\* self.confidence_levels of __init__: 1.645, 1.96, 2.576
ConfidenceLevels ==
    (90 :> <<329, 200>>) @@ (95 :> <<49, 25>>) @@ (99 :> <<322, 125>>)

\* The dataclass constructor: a field the caller did not supply (None in
\* `supplied`) takes the default of its declaration.
SurveyParameters(supplied) ==
    LET dflt(o, v) == IF o = None THEN v ELSE o[1]
    IN  [survey_type         |-> supplied.survey_type,
         population_size     |-> supplied.population_size,
         confidence_level    |-> dflt(supplied.confidence_level, 95),
         margin_error        |-> dflt(supplied.margin_error, <<1, 20>>),
         avg_cluster_size    |-> dflt(supplied.avg_cluster_size, 20),
         icc                 |-> supplied.icc,
         expected_prevalence |-> dflt(supplied.expected_prevalence, <<1, 2>>),
         non_response_rate   |-> dflt(supplied.non_response_rate, <<1, 10>>),
         effect_size         |-> supplied.effect_size,
         alpha               |-> dflt(supplied.alpha, <<1, 20>>),
         power               |-> dflt(supplied.power, <<4, 5>>)]

(***************************************************************************)
(* load_survey_profiles.  The profile source is a file that is missing,    *)
(* unreadable, not JSON, or holds a JSON value.  open and json.load raise  *)
(* in the first three cases and the bare except installs the defaults; a   *)
(* JSON value of any shape is stored as it is.                             *)
(***************************************************************************)
load_survey_profiles(src) ==
    IF src.state = "valid" THEN src.json ELSE DefaultProfiles

(***************************************************************************)
(* The formulas.                                                           *)
(***************************************************************************)
\* a variant of calculate_deff that counts every unit of the cluster
calculate_deff_all_units(avg_cluster_size, icc) ==
    RAdd(RatOfInt(1), RMul(RatOfInt(avg_cluster_size), icc))

\* 1 + (avg_cluster_size - 1) * icc
calculate_deff(avg_cluster_size, icc) ==
    RAdd(RatOfInt(1), RMul(RatOfInt(avg_cluster_size - 1), icc))

\* TTestIndPower().solve_power of statsmodels: the library's solution, kept
\* as the term of its arguments
calculate_power(effect_size, alpha, power) ==
    [effect_size |-> effect_size, alpha |-> alpha, power |-> power]

\* [error, value]: Z**2 * p * (1 - p) / e**2
_calculate_base_sample(confidence_levels, params) ==
    IF params.confidence_level \notin DOMAIN confidence_levels
    THEN [error |-> "KeyError", value |-> None]
    ELSE LET Z   == RatOfQ(confidence_levels[params.confidence_level])
             p   == RatOfQ(params.expected_prevalence)
             e   == RatOfQ(params.margin_error)
             num == RMul(RMul(RMul(Z, Z), p), RSub(RatOfInt(1), p))
             den == RMul(e, e)
         IN  IF RIsZero(den) THEN [error |-> "ZeroDivisionError", value |-> None]
             ELSE [error |-> "", value |-> Some(RDiv(num, den))]

\* a variant of _apply_fpc with the sign of the correction term flipped
_apply_fpc_minus(n, N) ==
    IF N = 0 THEN [error |-> "", value |-> Some(n)]
    ELSE LET den == RSub(RatOfInt(1), RDiv(RSub(n, RatOfInt(1)), RatOfInt(N)))
         IN  IF RIsZero(den) THEN [error |-> "ZeroDivisionError", value |-> None]
             ELSE [error |-> "", value |-> Some(RDiv(n, den))]

\* [error, value]: n / (1 + (n - 1)/N) if N else n
_apply_fpc(n, N) ==
    IF N = 0 THEN [error |-> "", value |-> Some(n)]
    ELSE LET den == RAdd(RatOfInt(1), RDiv(RSub(n, RatOfInt(1)), RatOfInt(N)))
         IN  IF RIsZero(den) THEN [error |-> "ZeroDivisionError", value |-> None]
             ELSE [error |-> "", value |-> Some(RDiv(n, den))]

\* next(p for p in self.survey_profiles if p['id'] == survey_type) over the
\* entries from position i on: [error, profile]
RECURSIVE NextProfile(_, _, _)
NextProfile(items, survey_type, i) ==
    IF i > Len(items) THEN [error |-> "StopIteration", profile |-> None]
    ELSE IF items[i].id = None THEN [error |-> "KeyError", profile |-> None]
    ELSE IF items[i].id[1] = survey_type THEN [error |-> "", profile |-> Some(items[i])]
    ELSE NextProfile(items, survey_type, i + 1)

\* a variant of ResolveProfile that gives next() a default, the first entry
ResolveProfile_with_default(survey_profiles, survey_type) ==
    IF survey_profiles.kind = "list"
    THEN LET r == NextProfile(survey_profiles.items, survey_type, 1)
         IN  IF r.error = "StopIteration" /\ survey_profiles.items # <<>>
             THEN [error |-> "", profile |-> Some(survey_profiles.items[1])]
             ELSE r
    ELSE [error |-> "TypeError", profile |-> None]

\* a number is not iterable; iterating an object yields its keys, and a
\* string index on a string is a TypeError
ResolveProfile(survey_profiles, survey_type) ==
    IF survey_profiles.kind = "list" THEN NextProfile(survey_profiles.items, survey_type, 1)
    ELSE [error |-> "TypeError", profile |-> None]

\* the locals of calculate_sample, None while not yet assigned
NoLocals ==
    [icc |-> None, b |-> None, deff |-> None, n0 |-> None,
     n_design |-> None, n_fpc |-> None, final_n |-> None]

\* an exception leaves calculate_sample: no result
Raise(error, locals) == [error |-> error, result |-> None, locals |-> locals]

\* Python's truth value of an Optional[float]: None and 0 are false
Truthy(o) == o # None /\ o[1][1] # 0

(***************************************************************************)
(* calculate_sample: [error, result, locals].  error is "" and result is   *)
(* the returned dict, or error names the exception and result is None.     *)
(* design_effect and icc of the dict are round(x, 3), in thousandths.      *)
(***************************************************************************)
calculate_sample(survey_profiles, confidence_levels, params) ==
    LET found == ResolveProfile(survey_profiles, params.survey_type)
    IN  IF found.error # "" THEN Raise(found.error, NoLocals) ELSE
    LET profile == found.profile[1]
        ownIcc  == Truthy(params.icc)
        ownB    == params.avg_cluster_size # 0
    IN  IF \/ ~ownIcc /\ profile.default_icc = None
           \/ ~ownB /\ profile.default_cluster_size = None
        THEN Raise("KeyError", NoLocals) ELSE
    LET icc  == RatOfQ(IF ownIcc THEN params.icc[1] ELSE profile.default_icc[1])
        b    == IF ownB THEN params.avg_cluster_size ELSE profile.default_cluster_size[1]
        deff == calculate_deff(b, icc)
        l1   == [NoLocals EXCEPT !.icc = Some(icc), !.b = Some(b), !.deff = Some(deff)]
        base == _calculate_base_sample(confidence_levels, params)
    IN  IF base.error # "" THEN Raise(base.error, l1) ELSE
    LET n0       == base.value[1]
        n_design == RMul(n0, deff)
        l2       == [l1 EXCEPT !.n0 = Some(n0), !.n_design = Some(n_design)]
        fpc      == _apply_fpc(n_design, params.population_size)
    IN  IF fpc.error # "" THEN Raise(fpc.error, l2) ELSE
    LET n_fpc == fpc.value[1]
        l3    == [l2 EXCEPT !.n_fpc = Some(n_fpc)]
        rest  == RSub(RatOfInt(1), RatOfQ(params.non_response_rate))
    IN  IF RIsZero(rest) THEN Raise("ZeroDivisionError", l3) ELSE
    LET final_n      == RDiv(n_fpc, rest)
        power_sample == IF Truthy(params.effect_size)
                        THEN Some(calculate_power(params.effect_size[1],
                                                  params.alpha, params.power))
                        ELSE None
    IN  [error  |-> "",
         result |-> Some([base_sample_size      |-> Ceil(n0),
                          design_effect         |-> Round3(deff),
                          icc                   |-> Round3(icc),
                          cluster_size          |-> b,
                          adjusted_sample_size  |-> Ceil(n_design),
                          final_sample_size     |-> Ceil(final_n),
                          power_sample_size     |-> power_sample,
                          effective_sample_size |-> Ceil(n0)]),
         locals |-> [l3 EXCEPT !.final_n = Some(final_n)]]

\* the projection of the entries from position i on, or the KeyError of an
\* entry without 'id' or 'name'
RECURSIVE SurveyTypesFrom(_, _)
SurveyTypesFrom(items, i) ==
    IF i > Len(items) THEN [error |-> "", value |-> <<>>]
    ELSE IF items[i].id = None \/ items[i].name = None
         THEN [error |-> "KeyError", value |-> <<>>]
    ELSE LET rest == SurveyTypesFrom(items, i + 1)
         IN  IF rest.error # "" THEN rest
             ELSE [error |-> "",
                   value |-> << [id |-> items[i].id[1], name |-> items[i].name[1],
                                 description |-> IF items[i].description = None THEN ""
                                                 ELSE items[i].description[1]] >>
                             \o rest.value]

get_survey_types(survey_profiles) ==
    IF survey_profiles.kind = "list" THEN SurveyTypesFrom(survey_profiles.items, 1)
    ELSE [error |-> "TypeError", value |-> <<>>]

(***************************************************************************)
(* What the model draws.                                                   *)
(***************************************************************************)
\* the longest profile list a source file holds
MaxProfiles == 2

\* entries a source file may hold: two well-formed profiles (one of them
\* the id of the built-in default with other defaults) and a record
\* without its clustering defaults
FileProfiles ==
    { [id |-> Some("annual_agri"), name |-> Some("Annual Agriculture Survey"),
       default_icc |-> Some(<<1, 5>>), default_cluster_size |-> Some(30),
       description |-> Some("Crop area and production estimates")],
      [id |-> Some("crop_cut"), name |-> Some("Crop Cutting Survey"),
       default_icc |-> Some(<<1, 20>>), default_cluster_size |-> Some(10),
       description |-> None],
      [id |-> Some("livestock"), name |-> None,
       default_icc |-> None, default_cluster_size |-> None,
       description |-> None] }

SeqsUpTo(S, n) == UNION { [1..k -> S] : k \in 0..n }

Unavailable(state) == [state |-> state, json |-> Unset]

\* the states of assets/survey_types.json
Sources ==
    { Unavailable("missing"), Unavailable("unreadable"), Unavailable("invalid_json") }
    \cup { [state |-> "valid", json |-> j] :
             j \in { JsonList(l) : l \in SeqsUpTo(FileProfiles, MaxProfiles) }
                   \cup { JsonObject, JsonNumber } }

\* the worked example: every field supplied
Example ==
    [survey_type         |-> "annual_agri",
     population_size     |-> 15000,
     confidence_level    |-> Some(95),
     margin_error        |-> Some(<<1, 20>>),
     avg_cluster_size    |-> Some(25),
     icc                 |-> Some(<<3, 20>>),
     expected_prevalence |-> Some(<<1, 2>>),
     non_response_rate   |-> Some(<<1, 10>>),
     effect_size         |-> None,
     alpha               |-> None,
     power               |-> None]

SurveyTypes == { "annual_agri", "crop_cut", "census" }

\* in-range parameters, small and large sizes
CoreArgs ==
    { [Example EXCEPT !.survey_type = st, !.population_size = N,
                      !.confidence_level = Some(cl), !.margin_error = Some(e),
                      !.expected_prevalence = Some(p), !.avg_cluster_size = Some(b)] :
        st \in { "annual_agri", "census" }, N \in { 1, 500, 15000 },
        cl \in { 90, 95, 99 }, e \in { <<1, 20>>, <<9, 10>> },
        p \in { <<1, 2>>, <<1, 100>> }, b \in { 1, 25 } }

\* explicit, zero and absent clustering parameters
ClusterArgs ==
    { [Example EXCEPT !.survey_type = st, !.avg_cluster_size = b, !.icc = i] :
        st \in SurveyTypes,
        b \in { None, Some(0), Some(1), Some(25) },
        i \in { None, Some(<<0, 1>>), Some(<<3, 20>>), Some(<<617, 5000>>) } }

\* out-of-range sizes and rates, one parameter out of range at a time
RangeArgs ==
    { [Example EXCEPT !.survey_type = st, !.population_size = N] :
        st \in { "annual_agri", "census" }, N \in { -100, 0 } }
    \cup { [Example EXCEPT !.survey_type = st, !.margin_error = Some(e)] :
              st \in { "annual_agri", "census" }, e \in { <<-1, 20>>, <<0, 1>> } }
    \cup { [Example EXCEPT !.survey_type = st, !.non_response_rate = r] :
              st \in { "annual_agri", "census" },
              r \in { None, Some(<<0, 1>>), Some(<<1, 1>>), Some(<<3, 2>>) } }

\* the power-analysis triple, whole, partial and absent
PowerArgs ==
    { [Example EXCEPT !.survey_type = st, !.effect_size = es, !.alpha = a, !.power = pw] :
        st \in { "annual_agri", "census" },
        es \in { None, Some(<<0, 1>>), Some(<<1, 2>>) },
        a \in { None, Some(<<1, 100>>) },
        pw \in { None, Some(<<9, 10>>) } }

Args == CoreArgs \cup ClusterArgs \cup RangeArgs \cup PowerArgs

\* the parameter sets of the runs that compare repeated calls
RepeatArgs ==
    { [Example EXCEPT !.survey_type = st, !.icc = i, !.non_response_rate = r] :
        st \in { "annual_agri", "census" },
        i \in { None, Some(<<3, 20>>) },
        r \in { Some(<<1, 10>>), Some(<<1, 1>>) } }

(***************************************************************************)
(* State.                                                                  *)
(***************************************************************************)
VARIABLES
    source,             \* the state of the profile source file
    pc,                 \* "new": not constructed; "idle"; "built": parameters
                        \* built; "done": calculate_sample has run
    confidence_levels,  \* self.confidence_levels
    survey_profiles,    \* self.survey_profiles
    call,               \* the caller's keyword arguments and the SurveyParameters
                        \* built from them, None while the caller holds none
    outcome,            \* what calculate_sample did with them, None before it ran
    listing,            \* what the last get_survey_types did
    first               \* an earlier call [params, outcome, later], kept for
                        \* comparison; later: calls were made after it

vars == << source, pc, confidence_levels, survey_profiles, call, outcome, listing, first >>

Init ==
    /\ source \in Sources
    /\ pc = "new"
    /\ confidence_levels = <<>>
    /\ survey_profiles = Unset
    /\ call = None
    /\ outcome = None
    /\ listing = None
    /\ first = None

\* ESSSampleSizeCalculator(): __init__ sets the table and loads the profiles
Construct ==
    /\ pc = "new"
    /\ confidence_levels' = ConfidenceLevels
    /\ survey_profiles' = load_survey_profiles(source)
    /\ pc' = "idle"
    /\ UNCHANGED << source, call, outcome, listing, first >>

\* the caller builds SurveyParameters(**supplied)
NewParameters(supplied) ==
    /\ pc = "idle"
    /\ call' = Some([supplied |-> supplied, params |-> SurveyParameters(supplied)])
    /\ outcome' = None
    /\ pc' = "built"
    /\ UNCHANGED << source, confidence_levels, survey_profiles, listing, first >>

\* the registry with the caller's icc stored as the default of its profile
RECURSIVE StoreIcc(_, _, _)
StoreIcc(items, survey_type, icc) ==
    IF items = <<>> THEN <<>>
    ELSE IF Head(items).id = Some(survey_type)
         THEN << [Head(items) EXCEPT !.default_icc = icc] >> \o Tail(items)
    ELSE << Head(items) >> \o StoreIcc(Tail(items), survey_type, icc)

\* a variant of CalculateSample that remembers the icc of the call in the
\* profile it resolved
CalculateSample_caching(keep) ==
    /\ pc = "built"
    /\ LET params == call[1].params
           out    == calculate_sample(survey_profiles, confidence_levels, params)
       IN  /\ outcome' = Some(out)
           /\ first' = IF first # None THEN Some([first[1] EXCEPT !.later = TRUE])
                       ELSE IF keep
                       THEN Some([params |-> params, outcome |-> out, later |-> FALSE])
                       ELSE first
           /\ survey_profiles' =
                 IF out.error = "" /\ Truthy(params.icc)
                 THEN [survey_profiles EXCEPT
                         !.items = StoreIcc(@, params.survey_type, params.icc)]
                 ELSE survey_profiles
    /\ pc' = "done"
    /\ UNCHANGED << source, confidence_levels, call, listing >>

\* calculator.calculate_sample(params); with `keep`, the observer keeps this
\* call as the one later calls are compared with
CalculateSample(keep) ==
    /\ pc = "built"
    /\ LET out == calculate_sample(survey_profiles, confidence_levels, call[1].params)
       IN  /\ outcome' = Some(out)
           /\ first' = IF first # None THEN Some([first[1] EXCEPT !.later = TRUE])
                       ELSE IF keep
                       THEN Some([params |-> call[1].params, outcome |-> out,
                                  later |-> FALSE])
                       ELSE first
    /\ pc' = "done"
    /\ UNCHANGED << source, confidence_levels, survey_profiles, call, listing >>

\* the caller shows the result (or the error) and its run ends: the
\* parameters and the result were its locals
DisplayResults ==
    /\ pc = "done"
    /\ call' = None
    /\ outcome' = None
    /\ pc' = "idle"
    /\ UNCHANGED << source, confidence_levels, survey_profiles, listing, first >>

\* calculator.get_survey_types()
GetSurveyTypes ==
    /\ pc = "idle"
    /\ listing' = Some(get_survey_types(survey_profiles))
    /\ UNCHANGED << source, pc, confidence_levels, survey_profiles, call, outcome, first >>

Next ==
    \/ Construct
    \/ \E supplied \in Args : NewParameters(supplied)
    \/ CalculateSample(FALSE)
    \/ DisplayResults
    \/ GetSurveyTypes

Spec == Init /\ [][Next]_vars

\* repeated calls, an earlier one kept for comparison
NextRepeat ==
    \/ Construct
    \/ \E supplied \in RepeatArgs : NewParameters(supplied)
    \/ \E keep \in BOOLEAN : CalculateSample(keep)
    \/ DisplayResults
    \/ GetSurveyTypes

SpecRepeat == Init /\ [][NextRepeat]_vars

(***************************************************************************)
(* Properties.  A call is over in the states with pc = "done": Supplied is *)
(* what the caller passed, Params the SurveyParameters built, Out what     *)
(* calculate_sample did with them.                                         *)
(***************************************************************************)
Done == pc = "done"

Supplied == call[1].supplied

Params == call[1].params

Out == outcome[1]

Returned == Out.error = "" /\ Out.result # None

Failed == Out.error # "" /\ Out.result = None

Result == Out.result[1]

\* the worked example, for whichever survey type
IsExample == [Supplied EXCEPT !.survey_type = "annual_agri"] = Example

Resolves == ResolveProfile(survey_profiles, Params.survey_type).error = ""

\* no entry of the registry has this id
NoProfileHasId(registry, survey_type) ==
    \/ registry.kind # "list"
    \/ \A i \in 1..Len(registry.items) : registry.items[i].id # Some(survey_type)

WellFormed(profile) ==
    /\ profile.id # None
    /\ profile.name # None
    /\ profile.default_icc # None
    /\ profile.default_cluster_size # None

\* a JSON value that is a list of profile records
ProfileList(json) ==
    /\ json.kind = "list"
    /\ \A i \in 1..Len(json.items) : WellFormed(json.items[i])

QPositive(q) == q[1] > 0

QBelowOne(q) == q[1] < q[2]

\* population_size, margin_error and expected_prevalence in their ranges
InRange ==
    /\ Params.population_size > 0
    /\ QPositive(Params.margin_error) /\ QBelowOne(Params.margin_error)
    /\ QPositive(Params.expected_prevalence) /\ QBelowOne(Params.expected_prevalence)

\* C1 as stated: the worked example returns base_sample_size 385,
\* design_effect 4.6, adjusted_sample_size 1768 and final_sample_size 1737.
C1_ExampleFinal1737 ==
    (Done /\ IsExample /\ Resolves) =>
        /\ Returned
        /\ Result.base_sample_size = 385
        /\ Result.design_effect = 4600
        /\ Result.adjusted_sample_size = 1768
        /\ Result.final_sample_size = 1737

\* C1 amended: the worked example returns base_sample_size 385,
\* design_effect 4.6, adjusted_sample_size 1768 and final_sample_size 1757
\* (the corrected size is 1580.99..., and 1580.99... / 0.9 = 1756.6...).
C1_WorkedExample ==
    (Done /\ IsExample /\ Resolves) =>
        /\ Returned
        /\ Result.base_sample_size = 385
        /\ Result.design_effect = 4600
        /\ Result.adjusted_sample_size = 1768
        /\ Result.final_sample_size = 1757

C1_Witness ==
    /\ Done /\ IsExample /\ Resolves /\ Returned
    /\ Params.survey_type = "crop_cut"

\* C2: a call with icc = 0 passed explicitly that returns has design_effect
\* 1, icc 0 and adjusted_sample_size equal to base_sample_size, whatever the
\* cluster size and the profile.
C2_ExplicitZeroIcc ==
    (Done /\ Supplied.icc = Some(<<0, 1>>) /\ Returned) =>
        /\ Result.design_effect = 1000
        /\ Result.icc = 0
        /\ Result.adjusted_sample_size = Result.base_sample_size

\* C3: a call whose survey_type is the id of no profile of the registry ends
\* in an error and returns no result, whatever the registry and the other
\* parameters.
C3_UnknownSurveyType ==
    (Done /\ NoProfileHasId(survey_profiles, Params.survey_type)) => Failed

C3_Witness ==
    /\ Done
    /\ NoProfileHasId(survey_profiles, Params.survey_type)
    /\ survey_profiles.kind = "list" /\ Len(survey_profiles.items) = MaxProfiles
    /\ \A i \in 1..Len(survey_profiles.items) : WellFormed(survey_profiles.items[i])
    /\ [Supplied EXCEPT !.survey_type = "annual_agri"] = Example
    /\ Out.error = "StopIteration" /\ Out.result = None

\* C4: a call with non_response_rate >= 1 fails and returns no result.
C4_NonResponseAtLeastOne ==
    (Done /\ Params.non_response_rate[1] >= Params.non_response_rate[2]) => Failed

\* C5: power_sample_size is non-null exactly when the caller supplied all of
\* effect_size, alpha and power, null when it supplied none, and a call with
\* a partial triple fails.
C5_PowerTriple ==
    Done =>
        LET given == { f \in { "effect_size", "alpha", "power" } : Supplied[f] # None }
        IN  /\ (Cardinality(given) = 3 /\ Returned) => Result.power_sample_size # None
            /\ (Cardinality(given) = 0 /\ Returned) => Result.power_sample_size = None
            /\ (Cardinality(given) \in { 1, 2 } /\ Resolves) => Failed

\* C6: once load_survey_profiles has run, the registry holds at least one
\* well-formed profile, and a source that is unavailable or is not a list of
\* profile records leaves the built-in default set.
C6_RegistryNeverEmpty ==
    (pc # "new") =>
        /\ survey_profiles.kind = "list"
        /\ \E i \in 1..Len(survey_profiles.items) : WellFormed(survey_profiles.items[i])
        /\ (source.state # "valid" \/ ~ProfileList(source.json))
               => survey_profiles = DefaultProfiles

\* C7 as stated: for in-range parameters the finite-population-corrected
\* size is at most the design-adjusted size, also when n_design < 1.
C7_FpcNeverLarger ==
    (Done /\ InRange /\ Out.locals.n_fpc # None) =>
        RLe(Out.locals.n_fpc[1], Out.locals.n_design[1])

\* C7 amended: for in-range parameters with n_design >= 1 the
\* finite-population-corrected size is at most the design-adjusted size.
C7_FpcAtMostDesign ==
    (Done /\ InRange /\ Out.locals.n_fpc # None
          /\ RLe(RatOfInt(1), Out.locals.n_design[1])) =>
        RLe(Out.locals.n_fpc[1], Out.locals.n_design[1])

C7_Witness ==
    /\ Done /\ InRange /\ Returned
    /\ RLe(RatOfInt(1), Out.locals.n_design[1])
    /\ RCmp(Out.locals.n_fpc[1], Out.locals.n_design[1]) < 0
    /\ Params.population_size = 1

\* C8: after construction no call changes the profile registry or the
\* confidence-level table, and a call yields the outcome of the earlier call
\* with the same parameters.
C8_NoStateRetained ==
    /\ [][pc # "new" => /\ survey_profiles' = survey_profiles
                        /\ confidence_levels' = confidence_levels]_vars
    /\ [](Done /\ first # None /\ first[1].params = Params
             => Out = first[1].outcome)

C8_Witness ==
    /\ Done /\ first # None /\ first[1].later
    /\ first[1].params = Params
    /\ Params.icc = None
    /\ Returned
    /\ listing # None

\* C9: the icc and cluster size used are the caller's when it passed them
\* and the profile's defaults when it did not, the result reports the values
\* used, and design_effect = 1 + (cluster_size - 1) * icc on the result.
C9_ResolvedValues ==
    (Done /\ Returned) =>
        LET profile == ResolveProfile(survey_profiles, Params.survey_type).profile[1]
            icc     == Out.locals.icc[1]
            b       == Out.locals.b[1]
        IN  /\ Supplied.icc # None => REq(icc, RatOfQ(Supplied.icc[1]))
            /\ Supplied.icc = None => REq(icc, RatOfQ(profile.default_icc[1]))
            /\ Supplied.avg_cluster_size # None => b = Supplied.avg_cluster_size[1]
            /\ Supplied.avg_cluster_size = None => b = profile.default_cluster_size[1]
            /\ REq(RatOfQ(<<Result.icc, 1000>>), icc)
            /\ Result.cluster_size = b
            /\ Result.design_effect = 1000 + (Result.cluster_size - 1) * Result.icc

\* C10: a call with population_size <= 0 or margin_error <= 0 fails and
\* returns no result.
C10_NonPositive ==
    (Done /\ (Params.population_size <= 0 \/ Params.margin_error[1] <= 0)) => Failed
====
